---- MODULE Spec2Model ----
(***************************************************************************)
(* A model of the IMDb scraper notebook (src/imdb-scraper.ipynb):          *)
(* the helpers to_numeric, savePoster and concatenate_list_data, the       *)
(* function imdb_scrape, and the notebook cells that drive it (the sample  *)
(* run, the single-year batch loop and the multi-year batch loop).         *)
(*                                                                         *)
(* Python values are tagged records [ty, v] so that a field of the result  *)
(* dictionary can hold '' at one time and an int at another.  A Python     *)
(* string is a sequence of one-character strings, so that re.sub, strip,   *)
(* split and the `in` test are computed character by character.            *)
(***************************************************************************)
EXTENDS Integers, Sequences, FiniteSets, TLC

(***************************************************************************)
(* Python values                                                           *)
(***************************************************************************)
PyStr(s) == [ty |-> "str", v |-> s]
PyInt(n) == [ty |-> "int", v |-> n]
\* A float m / 10^e, kept with no trailing zero in the mantissa when e > 0.
PyFloat(m, e) == [ty |-> "float", v |-> <<m, e>>]
PyList(xs) == [ty |-> "list", v |-> xs]
\* The literal '' that imdb_scrape puts in every field it has not filled.
EMPTY == PyStr(<<>>)

\* The outcome of evaluating an expression: a value, or an exception raised.
Ok(obj) == [exc |-> "none", val |-> obj]
Raise(e) == [exc |-> e, val |-> EMPTY]

(***************************************************************************)
(* Strings                                                                 *)
(***************************************************************************)
DigitVal ==
    [c \in {"0", "1", "2", "3", "4", "5", "6", "7", "8", "9"} |->
        CASE c = "0" -> 0 [] c = "1" -> 1 [] c = "2" -> 2 [] c = "3" -> 3
          [] c = "4" -> 4 [] c = "5" -> 5 [] c = "6" -> 6 [] c = "7" -> 7
          [] c = "8" -> 8 [] c = "9" -> 9]

IsDigit(c) == c \in DOMAIN DigitVal

IsSpace(c) == c \in {" ", "\n", "\t"}

\* The value of a run of decimal digits, most significant first.
RECURSIVE DigitsValue(_)
DigitsValue(s) ==
    IF s = <<>> THEN 0
    ELSE 10 * DigitsValue(SubSeq(s, 1, Len(s) - 1)) + DigitVal[s[Len(s)]]

\* str.strip(): leading and trailing whitespace removed.
RECURSIVE LStrip(_)
LStrip(s) ==
    IF s # <<>> /\ IsSpace(s[1]) THEN LStrip(Tail(s)) ELSE s

RECURSIVE RStrip(_)
RStrip(s) ==
    IF s # <<>> /\ IsSpace(s[Len(s)]) THEN RStrip(SubSeq(s, 1, Len(s) - 1)) ELSE s

Strip(s) == RStrip(LStrip(s))
\* sub occurs in s at the position given.
\* sub occurs in s at position i.
OccursAt(sub, s, at) ==
    /\ at + Len(sub) - 1 <= Len(s)
    /\ SubSeq(s, at, at + Len(sub) - 1) = sub

\* Python's `sub in s`.
Contains(sub, s) == \E at \in 1..(Len(s) + 1) : OccursAt(sub, s, at)

\* s.split(sep)[0]: the text before the first occurrence of sep, all of s if none.
SplitFirst(s, sep) ==
    IF Contains(sep, s)
    THEN LET cut == CHOOSE j \in 1..(Len(s) + 1) :
                      /\ OccursAt(sep, s, j)
                      /\ \A k \in 1..(j - 1) : ~OccursAt(sep, s, k)
         IN SubSeq(s, 1, cut - 1)
    ELSE s

\* s.split(sep)[-1]: the text after the last occurrence of sep, all of s if none.
SplitLast(s, sep) ==
    IF Contains(sep, s)
    THEN LET cut == CHOOSE j \in 1..(Len(s) + 1) :
                      /\ OccursAt(sep, s, j)
                      /\ \A k \in (j + 1)..(Len(s) + 1) : ~OccursAt(sep, s, k)
         IN SubSeq(s, cut + Len(sep), Len(s))
    ELSE s

\* A substitution that also keeps the decimal point: re.sub("[^0-9.]", "", string)
StripNonDigits_KeepPoint(s) == SelectSeq(s, LAMBDA c : IsDigit(c) \/ c = ".")

\* re.sub("[^0-9]", "", string)
StripNonDigits(s) == SelectSeq(s, IsDigit)

\* int(s) for a str s: surrounding whitespace is ignored, the rest must be a
\* non-empty run of digits (the texts of the model carry no sign).
IntOfStr(s) ==
    LET t == Strip(s)
    IN IF t # <<>> /\ \A k \in 1..Len(t) : IsDigit(t[k])
       THEN Ok(PyInt(DigitsValue(t)))
       ELSE Raise("ValueError")

\* m / 10^e with the trailing zeros of the fraction dropped.
RECURSIVE Normalized(_, _)
Normalized(m, e) ==
    IF e > 0 /\ m % 10 = 0 THEN Normalized(m \div 10, e - 1) ELSE PyFloat(m, e)

\* float(s) for a str s in plain decimal notation: digits with at most one point.
FloatOfStr(s) ==
    LET t == Strip(s)
        digits == StripNonDigits(t)
        points == SelectSeq(t, LAMBDA c : c = ".")
        frac == IF points = <<>> THEN <<>> ELSE SplitLast(t, <<".">>)
    IN IF /\ digits # <<>>
          /\ Len(points) <= 1
          /\ Len(digits) + Len(points) = Len(t)
       THEN Ok(Normalized(DigitsValue(digits), Len(frac)))
       ELSE Raise("ValueError")

\* float(x) for a Python value x.
FloatOf(obj) ==
    CASE obj.ty = "str" -> FloatOfStr(obj.v)
      [] obj.ty = "int" -> Ok(PyFloat(obj.v, 0))
      [] obj.ty = "float" -> Ok(obj)
      [] OTHER -> Raise("TypeError")

\* A to_numeric that gives '' for a text without digits instead of raising.
to_numeric_Lenient(string, num_type) ==
    IF StripNonDigits(string) = <<>> THEN Ok(EMPTY)
    ELSE IF num_type = "float" THEN FloatOfStr(StripNonDigits(string))
    ELSE IntOfStr(StripNonDigits(string))

\* to_numeric(string, num_type)
to_numeric(string, num_type) ==
    IF num_type = "float"
    THEN FloatOfStr(StripNonDigits(string))
    ELSE IF num_type = "int"
    THEN IntOfStr(StripNonDigits(string))
    ELSE Ok(PyStr(string))

(***************************************************************************)
(* Documents.  A fetched page is modelled by what BeautifulSoup's find and  *)
(* findAll return on it for each selector imdb_scrape uses: the sequence of *)
(* matching elements (empty when the page has none), each element by the    *)
(* children and attributes the code reads.                                  *)
(***************************************************************************)
\* A dict without one of its keys.
Without(d, k) == [j \in DOMAIN d \ {k} |-> d[j]]

PosterUrl == <<"u", ".", "j">>
PosterUrlPng == <<"u", ".", "v", ".", "p">>
PosterUrlNoDot == <<"u", "j">>

FullRating == [ratingValue |-> PyStr(<<"8", ".", "1">>), ratingCount |-> PyInt(820733)]

\* The linked-data payload of a page that carries every key the code reads.
FullJson ==
    [name |-> PyStr(<<"J", "P">>),
     contentRating |-> PyStr(<<"P", "G">>),
     image |-> PyStr(PosterUrl),
     genre |-> PyList(<<PyStr(<<"A", "c">>), PyStr(<<"S", "F">>)>>),
     aggregateRating |-> FullRating]

\* A script block of type application/ld+json: its text decodes to a dict, or not.
Block(j) == [decodes |-> TRUE, json |-> j]
BadBlock == [decodes |-> FALSE, json |-> Without(FullJson, "name")]

\* soup.findAll('script', {'type':'application/ld+json'})
ScriptsVariants ==
    {<<Block(FullJson)>>,
     <<>>,
     <<BadBlock>>,
     <<BadBlock, Block(FullJson)>>,
     <<Block(Without(FullJson, "contentRating")), Block(FullJson)>>,
     <<Block(Without(FullJson, "name"))>>,
     <<Block(Without(FullJson, "image"))>>,
     <<Block(Without(FullJson, "genre"))>>,
     <<Block(Without(FullJson, "aggregateRating"))>>,
     <<Block([FullJson EXCEPT !.aggregateRating = Without(FullRating, "ratingValue")])>>,
     <<Block([FullJson EXCEPT !.aggregateRating = Without(FullRating, "ratingCount")])>>,
     <<Block([FullJson EXCEPT !.aggregateRating.ratingValue = PyFloat(81, 1)])>>,
     <<Block([FullJson EXCEPT !.image = PyStr(PosterUrlPng)])>>,
     <<Block([FullJson EXCEPT !.image = PyStr(PosterUrlNoDot)])>>}

\* An element with the texts of its <a> descendants, in document order.
WithLinks(texts) == [links |-> texts]

\* soup.find('span', {'id':'titleYear'})
TitleYearVariants ==
    {<<WithLinks(<<<<"1", "9", "9", "3">>>>)>>,
     <<>>,
     <<WithLinks(<<>>)>>,
     <<WithLinks(<<<<"T", "B", "A">>>>)>>}

\* soup.find('time'): the attributes of the element.
TimeVariants ==
    {<<[datetime |-> <<"P", "T", "1", "2", "7", "M">>]>>,
     <<>>,
     <<[class |-> <<"t">>]>>,
     <<[datetime |-> <<"P", "T", "M">>]>>}

\* soup.find('div', {'class':'title_wrapper'})
TitleWrapperVariants ==
    {<<WithLinks(<<<<"A", "c">>, <<"1", "1", " ", "J", "u", "n", " ", "(", "U", "S", ")">>>>)>>,
     <<>>,
     <<WithLinks(<<>>)>>,
     <<WithLinks(<<<<"1", "9", "9", "3">>>>)>>}

\* soup.find('div', {'class':'metacriticScore'}): the texts of its <span> descendants.
MetacriticVariants ==
    {<<[spans |-> <<<<"6", "8">>>>]>>,
     <<>>,
     <<[spans |-> <<>>]>>}

UserLink == <<"1", ",", "0", "8", "5", " ", "u">>
CriticLink == <<"3", "5", "5", " ", "c">>
NoDigitLink == <<"s", "e", "e">>

\* soup.findAll('div', {'class':'titleReviewBarItem titleReviewbarItemBorder'})
ReviewBarVariants ==
    {<<WithLinks(<<UserLink, CriticLink>>)>>,
     <<>>,
     <<WithLinks(<<>>)>>,
     <<WithLinks(<<UserLink>>)>>,
     <<WithLinks(<<UserLink, CriticLink, <<"9">>>>)>>,
     <<WithLinks(<<NoDigitLink>>)>>,
     <<WithLinks(<<UserLink, NoDigitLink>>)>>,
     <<WithLinks(<<CriticLink>>), WithLinks(<<UserLink, CriticLink>>)>>}

\* The text the page shows when a title has no plot yet.
AddAPlot == <<"A", "d", "d", " ", "a", " ", "P", "l", "o", "t">>

\* soup.find('div', {'class':'summary_text'}): the text of the element.
SummaryVariants ==
    {<<[text |-> <<"\n", " ", "A", " ", "p", "l", "o", "t", ".", "\n">>]>>,
     <<>>,
     <<[text |-> <<"\n", " ">> \o AddAPlot \o <<"\n">>]>>,
     <<[text |-> <<"\n">> \o AddAPlot \o <<" ", ">", "\n">>]>>,
     <<[text |-> <<" ">>]>>}

\* soup.find('div', {'id':'titleStoryLine'}): divs, the <p>s of the first div, the
\* texts of the <span>s of the first <p>.
StoryLine(ps) == [divs |-> <<[ps |-> ps]>>]
StoryLineVariants ==
    {<<StoryLine(<<[spans |-> <<<<" ", "L", "o", "n", "g", "\n">>>>]>>)>>,
     <<>>,
     <<[divs |-> <<>>]>>,
     <<StoryLine(<<>>)>>,
     <<StoryLine(<<[spans |-> <<>>]>>)>>}

\* The page on which every selector finds what the code expects.
FullDoc ==
    [scripts |-> <<Block(FullJson)>>,
     titleYear |-> <<WithLinks(<<<<"1", "9", "9", "3">>>>)>>,
     time |-> <<[datetime |-> <<"P", "T", "1", "2", "7", "M">>]>>,
     title_wrapper |->
        <<WithLinks(<<<<"A", "c">>, <<"1", "1", " ", "J", "u", "n", " ", "(", "U", "S", ")">>>>)>>,
     metacriticScore |-> <<[spans |-> <<<<"6", "8">>>>]>>,
     reviewBar |-> <<WithLinks(<<UserLink, CriticLink>>)>>,
     summary_text |-> <<[text |-> <<"\n", " ", "A", " ", "p", "l", "o", "t", ".", "\n">>]>>,
     titleStoryLine |-> <<StoryLine(<<[spans |-> <<<<" ", "L", "o", "n", "g", "\n">>>>]>>)>>]

\* What each selector may return, FullDoc's own value first among them.
Variants ==
    [scripts |-> ScriptsVariants, titleYear |-> TitleYearVariants, time |-> TimeVariants,
     title_wrapper |-> TitleWrapperVariants, metacriticScore |-> MetacriticVariants,
     reviewBar |-> ReviewBarVariants, summary_text |-> SummaryVariants,
     titleStoryLine |-> StoryLineVariants]

\* The pages obtained from those of S by changing one part.
OneChange(S) ==
    UNION {UNION {{[d EXCEPT ![f] = part] : part \in Variants[f]} : f \in DOMAIN Variants} : d \in S}

RECURSIVE Changed(_, _)
Changed(S, n) == IF n = 0 THEN S ELSE Changed(S \cup OneChange(S), n - 1)

\* In how many of its parts a page differs from FullDoc.
Deviations(d) == Cardinality({f \in DOMAIN FullDoc : d[f] # FullDoc[f]})

\* The pages a single call is checked on: FullDoc changed in at most this many parts.
MaxDeviations == 2

Docs == Changed({FullDoc}, MaxDeviations)

\* soup.find(...): the first match, or None.
Found(matches) == matches # <<>>

(***************************************************************************)
(* imdb_scrape, lines 181-220: the statements that fill imdb_info_dict.    *)
(* Each takes the dictionary so far and gives the dictionary after it, or  *)
(* the exception it raises.                                                *)
(***************************************************************************)
\* An imdb_info_dict built without the key.
NewInfoDict_NoKey(imdb_id) ==
    [tconst |-> EMPTY, title |-> EMPTY, release_year |-> EMPTY,
     release_date |-> EMPTY, MPAA |-> EMPTY, genre |-> PyList(<<>>), runtime |-> EMPTY,
     poster_url |-> EMPTY, plot_short |-> EMPTY, plot_long |-> EMPTY,
     imdb_rating |-> EMPTY, num_imdb_votes |-> EMPTY, metacritic |-> EMPTY,
     num_user_reviews |-> EMPTY, num_critic_reviews |-> EMPTY]

\* imdb_info_dict as built at the head of imdb_scrape.
NewInfoDict(imdb_id) ==
    [tconst |-> PyStr(imdb_id), title |-> EMPTY, release_year |-> EMPTY,
     release_date |-> EMPTY, MPAA |-> EMPTY, genre |-> PyList(<<>>), runtime |-> EMPTY,
     poster_url |-> EMPTY, plot_short |-> EMPTY, plot_long |-> EMPTY,
     imdb_rating |-> EMPTY, num_imdb_votes |-> EMPTY, metacritic |-> EMPTY,
     num_user_reviews |-> EMPTY, num_critic_reviews |-> EMPTY]

\* r, with f set to r's value in d when r raised nothing.
Assign(d, f, r) == IF r.exc # "none" THEN r ELSE Ok([d EXCEPT ![f] = r.val])

\* json_dict[k]
Subscript(json_dict, k) ==
    IF k \in DOMAIN json_dict THEN Ok(json_dict[k]) ELSE Raise("KeyError")

\* A LoadJson that takes the first block that decodes instead of the first block.
LoadJson_FirstDecodable(soup) ==
    LET good == SelectSeq(soup.scripts, LAMBDA b : b.decodes)
    IN IF good = <<>> THEN Raise("IndexError") ELSE Ok(good[1].json)

\* json.loads(str(soup.findAll('script', {'type':'application/ld+json'})[0].text))
LoadJson(soup) ==
    IF soup.scripts = <<>> THEN Raise("IndexError")
    ELSE IF ~soup.scripts[1].decodes THEN Raise("JSONDecodeError")
    ELSE Ok(soup.scripts[1].json)

\* imdb_info_dict['title'] = json_dict['name']
SetTitle(json_dict, d) == Assign(d, "title", Subscript(json_dict, "name"))

\* A SetMPAA without the `in` test.
SetMPAA_Unguarded(json_dict, d) == Assign(d, "MPAA", Subscript(json_dict, "contentRating"))

\* if 'contentRating' in json_dict: imdb_info_dict['MPAA'] = json_dict['contentRating']
SetMPAA(json_dict, d) ==
    IF "contentRating" \in DOMAIN json_dict
    THEN Assign(d, "MPAA", Subscript(json_dict, "contentRating"))
    ELSE Ok(d)

\* imdb_info_dict['poster_url'] = json_dict['image']
SetPosterUrl(json_dict, d) == Assign(d, "poster_url", Subscript(json_dict, "image"))

\* imdb_info_dict['release_year'] = int( soup.find('span', {'id':'titleYear'}).a.text )
SetReleaseYear(soup, d) ==
    IF ~Found(soup.titleYear) THEN Raise("AttributeError")
    ELSE IF soup.titleYear[1].links = <<>> THEN Raise("AttributeError")
    ELSE Assign(d, "release_year", IntOfStr(soup.titleYear[1].links[1]))

\* imdb_info_dict['runtime'] = to_numeric( soup.find('time')['datetime'] )
SetRuntime(soup, d) ==
    IF ~Found(soup.time) THEN Raise("TypeError")
    ELSE IF "datetime" \notin DOMAIN soup.time[1] THEN Raise("KeyError")
    ELSE Assign(d, "runtime", to_numeric(soup.time[1].datetime, "int"))

\* date_string = soup.find('div', {'class':'title_wrapper'}).findAll('a')[-1].text.split(' (')[0]
\* imdb_info_dict['release_date'] = date_string
SetReleaseDate(soup, d) ==
    IF ~Found(soup.title_wrapper) THEN Raise("AttributeError")
    ELSE LET links == soup.title_wrapper[1].links
         IN IF links = <<>> THEN Raise("IndexError")
            ELSE Ok([d EXCEPT !.release_date =
                        PyStr(SplitFirst(links[Len(links)], <<" ", "(">>))])

\* imdb_info_dict['genre'] = json_dict['genre']
SetGenre(json_dict, d) == Assign(d, "genre", Subscript(json_dict, "genre"))

\* A SetImdbRating that sends the rating text through to_numeric(..., 'float').
SetImdbRating_Stripped(json_dict, d) ==
    LET agg == Subscript(json_dict, "aggregateRating")
    IN IF agg.exc # "none" THEN agg
       ELSE LET value == Subscript(agg.val, "ratingValue")
            IN IF value.exc # "none" THEN value
               ELSE IF value.val.ty = "str"
               THEN Assign(d, "imdb_rating", to_numeric(value.val.v, "float"))
               ELSE Assign(d, "imdb_rating", FloatOf(value.val))

\* imdb_info_dict['imdb_rating'] = float( json_dict['aggregateRating']['ratingValue'] )
SetImdbRating(json_dict, d) ==
    LET agg == Subscript(json_dict, "aggregateRating")
    IN IF agg.exc # "none" THEN agg
       ELSE LET value == Subscript(agg.val, "ratingValue")
            IN IF value.exc # "none" THEN value
               ELSE Assign(d, "imdb_rating", FloatOf(value.val))

\* imdb_info_dict['num_imdb_votes'] = json_dict['aggregateRating']['ratingCount']
SetNumImdbVotes(json_dict, d) ==
    LET agg == Subscript(json_dict, "aggregateRating")
    IN IF agg.exc # "none" THEN agg
       ELSE Assign(d, "num_imdb_votes", Subscript(agg.val, "ratingCount"))

\* A SetMetacritic without the `!= None` test.
SetMetacritic_Unguarded(soup, d) ==
    IF ~Found(soup.metacriticScore) THEN Raise("AttributeError")
    ELSE IF soup.metacriticScore[1].spans = <<>> THEN Raise("AttributeError")
    ELSE Assign(d, "metacritic", IntOfStr(soup.metacriticScore[1].spans[1]))

\* if soup.find('div', {'class':'metacriticScore'}) != None:
\*     imdb_info_dict['metacritic'] = int( soup.find(...).span.text )
SetMetacritic(soup, d) ==
    IF ~Found(soup.metacriticScore) THEN Ok(d)
    ELSE IF soup.metacriticScore[1].spans = <<>> THEN Raise("AttributeError")
    ELSE Assign(d, "metacritic", IntOfStr(soup.metacriticScore[1].spans[1]))

\* A SetReviewCounts that takes the critic count from the first link and the user
\* count from the second.
SetReviewCounts_Swapped(soup, d) ==
    LET num_review_list == soup.reviewBar
    IN IF num_review_list = <<>> THEN Ok(d)
       ELSE LET reviews == num_review_list[1].links
                user == IF Len(reviews) > 1
                        THEN Assign(d, "num_user_reviews", to_numeric(reviews[2], "int"))
                        ELSE Ok(d)
            IN IF user.exc # "none" THEN user
               ELSE IF Len(reviews) > 0
               THEN Assign(user.val, "num_critic_reviews", to_numeric(reviews[1], "int"))
               ELSE user

\* The review-count block: the critic count is read before the user count.
SetReviewCounts(soup, d) ==
    LET num_review_list == soup.reviewBar
    IN IF num_review_list = <<>> THEN Ok(d)
       ELSE LET reviews == num_review_list[1].links
                critic == IF Len(reviews) > 1
                          THEN Assign(d, "num_critic_reviews", to_numeric(reviews[2], "int"))
                          ELSE Ok(d)
            IN IF critic.exc # "none" THEN critic
               ELSE IF Len(reviews) > 0
               THEN Assign(critic.val, "num_user_reviews", to_numeric(reviews[1], "int"))
               ELSE critic

\* A SetPlotShort that tests the text for equality with the placeholder.
SetPlotShort_Exact(soup, d) ==
    IF ~Found(soup.summary_text) THEN Raise("AttributeError")
    ELSE LET plot_short == Strip(soup.summary_text[1].text)
         IN IF plot_short = AddAPlot
            THEN Ok([d EXCEPT !.plot_short = EMPTY])
            ELSE Ok([d EXCEPT !.plot_short = PyStr(plot_short)])

\* imdb_info_dict['plot_short'] = soup.find('div',{'class':'summary_text'}).text.strip()
\* if 'Add a Plot' in imdb_info_dict['plot_short']: imdb_info_dict['plot_short'] = ''
SetPlotShort(soup, d) ==
    IF ~Found(soup.summary_text) THEN Raise("AttributeError")
    ELSE LET plot_short == Strip(soup.summary_text[1].text)
         IN IF Contains(AddAPlot, plot_short)
            THEN Ok([d EXCEPT !.plot_short = EMPTY])
            ELSE Ok([d EXCEPT !.plot_short = PyStr(plot_short)])

\* if soup.find('div',{'id':'titleStoryLine'}).div.p != None:
\*     imdb_info_dict['plot_long'] = soup.find(...).div.p.span.text.strip()
SetPlotLong(soup, d) ==
    IF ~Found(soup.titleStoryLine) THEN Raise("AttributeError")
    ELSE IF soup.titleStoryLine[1].divs = <<>> THEN Raise("AttributeError")
    ELSE LET ps == soup.titleStoryLine[1].divs[1].ps
         IN IF ps = <<>> THEN Ok(d)
            ELSE IF ps[1].spans = <<>> THEN Raise("AttributeError")
            ELSE Ok([d EXCEPT !.plot_long = PyStr(Strip(ps[1].spans[1]))])

\* The statements of lines 184-220 in the order the code runs them.
Statements ==
    <<"title", "MPAA", "poster_url", "release_year", "runtime", "release_date", "genre",
      "imdb_rating", "num_imdb_votes", "metacritic", "reviews", "plot_short", "plot_long">>

Stmt(name, soup, json_dict, d) ==
    CASE name = "title" -> SetTitle(json_dict, d)
      [] name = "MPAA" -> SetMPAA(json_dict, d)
      [] name = "poster_url" -> SetPosterUrl(json_dict, d)
      [] name = "release_year" -> SetReleaseYear(soup, d)
      [] name = "runtime" -> SetRuntime(soup, d)
      [] name = "release_date" -> SetReleaseDate(soup, d)
      [] name = "genre" -> SetGenre(json_dict, d)
      [] name = "imdb_rating" -> SetImdbRating(json_dict, d)
      [] name = "num_imdb_votes" -> SetNumImdbVotes(json_dict, d)
      [] name = "metacritic" -> SetMetacritic(soup, d)
      [] name = "reviews" -> SetReviewCounts(soup, d)
      [] name = "plot_short" -> SetPlotShort(soup, d)
      [] name = "plot_long" -> SetPlotLong(soup, d)

\* The statements from the n-th on, stopping at the first that raises.
RECURSIVE RunFrom(_, _, _, _)
RunFrom(n, soup, json_dict, d) ==
    IF n > Len(Statements) THEN Ok(d)
    ELSE LET r == Stmt(Statements[n], soup, json_dict, d)
         IN IF r.exc # "none" THEN r ELSE RunFrom(n + 1, soup, json_dict, r.val)

\* Lines 181-220 on a fetched page: the filled dictionary, or the exception raised.
ParsePage(soup, d) ==
    LET loaded == LoadJson(soup)
    IN IF loaded.exc # "none" THEN loaded ELSE RunFrom(1, soup, loaded.val, d)

(***************************************************************************)
(* savePoster and the posters/ folder                                       *)
(***************************************************************************)
\* What the image host may answer to one download.
ImageData == {"img1", "img2"}
ImageOutcomes ==
    {[exc |-> "none", data |-> img] : img \in ImageData}
        \cup {[exc |-> e, data |-> "img1"] : e \in {"ConnectionError", "OSError"}}

NoRequest == [kind |-> "none", url |-> <<>>]
ImageRequest(img_url) == [kind |-> "image", url |-> img_url]

\* f'posters/{imdb_id}.{ext}' with ext = img_url.split('.')[-1]
PosterPath(imdb_id, img_url) == <<imdb_id, SplitLast(img_url, <<".">>)>>

\* os.path.isfile(path)
IsFile(folder, path) == path \in DOMAIN folder

\* A savePoster that gives False when the download or the decoding fails.
savePoster_Swallow(folder, imdb_id, img_url, outcome) ==
    LET path == PosterPath(imdb_id, img_url)
    IN IF IsFile(folder, path) \/ outcome.exc # "none"
       THEN [exc |-> "none", val |-> FALSE, folder |-> folder,
             net |-> IF IsFile(folder, path) THEN NoRequest ELSE ImageRequest(img_url)]
       ELSE [exc |-> "none", val |-> TRUE, folder |-> (path :> outcome.data) @@ folder,
             net |-> ImageRequest(img_url)]

\* A savePoster without the os.path.isfile test.
savePoster_NoCheck(folder, imdb_id, img_url, outcome) ==
    LET path == PosterPath(imdb_id, img_url)
    IN IF outcome.exc # "none"
       THEN [exc |-> outcome.exc, val |-> FALSE, folder |-> folder,
             net |-> ImageRequest(img_url)]
       ELSE [exc |-> "none", val |-> TRUE, folder |-> (path :> outcome.data) @@ folder,
             net |-> ImageRequest(img_url)]

\* savePoster(imdb_id, img_url) on the folder `folder`, the image host answering
\* `outcome`: the value returned or the exception raised, the folder afterwards
\* and the request sent.
savePoster(folder, imdb_id, img_url, outcome) ==
    LET path == PosterPath(imdb_id, img_url)
    IN IF IsFile(folder, path)
       THEN [exc |-> "none", val |-> FALSE, folder |-> folder, net |-> NoRequest]
       ELSE IF outcome.exc # "none"
       THEN [exc |-> outcome.exc, val |-> FALSE, folder |-> folder,
             net |-> ImageRequest(img_url)]
       ELSE [exc |-> "none", val |-> TRUE, folder |-> (path :> outcome.data) @@ folder,
             net |-> ImageRequest(img_url)]

\* concatenate_list_data(my_list): the str() of the elements, joined with nothing.
RECURSIVE concatenate_list_data(_)
concatenate_list_data(my_list) ==
    IF my_list = <<>> THEN <<>>
    ELSE my_list[1].v \o concatenate_list_data(Tail(my_list))

(***************************************************************************)
(* The batch file: pd.DataFrame(annual_movie_list).to_csv(..., sep='\t',    *)
(* quoting=csv.QUOTE_ALL, index=False) writes one line per dictionary, the  *)
(* str() of each value between double quotes.                               *)
(***************************************************************************)
DigitChar(n) == CHOOSE c \in DOMAIN DigitVal : DigitVal[c] = n

\* str(n) for an int n >= 0.
RECURSIVE StrOfNat(_)
StrOfNat(n) ==
    IF n < 10 THEN <<DigitChar(n)>> ELSE StrOfNat(n \div 10) \o <<DigitChar(n % 10)>>

\* The e digits of the fraction f / 10^e.
RECURSIVE FractionDigits(_, _)
FractionDigits(f, e) ==
    IF e = 0 THEN <<>> ELSE FractionDigits(f \div 10, e - 1) \o <<DigitChar(f % 10)>>

\* repr() of a float m / 10^e in plain notation: 8.1, 81.0
StrOfFloat(m, e) ==
    IF e = 0 THEN StrOfNat(m) \o <<".", "0">>
    ELSE LET RECURSIVE P(_)
             P(k) == IF k = 0 THEN 1 ELSE 10 * P(k - 1)
         IN StrOfNat(m \div P(e)) \o <<".">> \o FractionDigits(m % P(e), e)

\* repr() of a str without a quote character in it: 'Ac'
ReprOfStr(s) == <<"'">> \o s \o <<"'">>

\* str() of a Python value; a list is written as its display: ['Ac', 'SF']
RECURSIVE JoinReprs(_)
JoinReprs(xs) ==
    IF xs = <<>> THEN <<>>
    ELSE IF Len(xs) = 1 THEN ReprOfStr(xs[1].v)
    ELSE ReprOfStr(xs[1].v) \o <<",", " ">> \o JoinReprs(Tail(xs))

PyStrOf(value) ==
    CASE value.ty = "str" -> value.v
      [] value.ty = "int" -> StrOfNat(value.v)
      [] value.ty = "float" -> StrOfFloat(value.v[1], value.v[2])
      [] value.ty = "list" -> <<"[">> \o JoinReprs(value.v) \o <<"]">>

\* csv.QUOTE_ALL: the text between double quotes, a double quote in it doubled.
RECURSIVE Doubled(_)
Doubled(s) ==
    IF s = <<>> THEN <<>>
    ELSE (IF s[1] = "\"" THEN <<"\"", "\"">> ELSE <<s[1]>>) \o Doubled(Tail(s))

Quoted(s) == <<"\"">> \o Doubled(s) \o <<"\"">>

\* The line of the file for one dictionary: a cell per column.
CsvRow(d) == [f \in DOMAIN d |-> Quoted(PyStrOf(d[f]))]

\* The lines of the file after the header, in the order of the list.
to_csv(rows) == [n \in 1..Len(rows) |-> CsvRow(rows[n])]

(***************************************************************************)
(* The notebook: the key table, the cells and the state of the kernel       *)
(***************************************************************************)
K1 == <<"t", "1">>
K2 == <<"t", "2">>
K3 == <<"t", "3">>

\* imdb_movie_list.csv as read by pd.read_csv: a tconst column and a year column.
movie_df ==
    <<[tconst |-> K1, year |-> 1920], [tconst |-> K2, year |-> 1920],
      [tconst |-> K3, year |-> 1921]>>

\* range(1920,1925), cut to the years of the table.
years_to_scrape_list == <<1920, 1921>>

Years == {years_to_scrape_list[n] : n \in 1..Len(years_to_scrape_list)}

\* movie_df[(movie_df['year'] == yr)]['tconst'].values
RECURSIVE TconstsOf(_, _)
TconstsOf(df, y) ==
    IF df = <<>> THEN <<>>
    ELSE (IF df[1].year = y THEN <<df[1].tconst>> ELSE <<>>) \o TconstsOf(Tail(df), y)

\* imdb_base_url + imdb_id
imdb_base_url == <<"h", "/">>
PageRequest(imdb_id) == [kind |-> "page", url |-> imdb_base_url \o imdb_id]

\* A page on which no selector finds anything: the value of soup before a fetch.
NoPage ==
    [scripts |-> <<>>, titleYear |-> <<>>, time |-> <<>>, title_wrapper |-> <<>>,
     metacriticScore |-> <<>>, reviewBar |-> <<>>, summary_text |-> <<>>,
     titleStoryLine |-> <<>>]

\* The pages the batch loops are checked on: the full page, a page with no payload
\* block and a page whose first payload block does not decode.
BatchPages ==
    {FullDoc,
     [FullDoc EXCEPT !.scripts = <<>>],
     [FullDoc EXCEPT !.scripts = <<BadBlock, Block(FullJson)>>]}

\* How many times a batch cell of the notebook is run.
MaxRuns == 2

\* The texts to_numeric is called on: every text of at most MaxStrLen characters
\* over Alphabet (digits, the separators of the page texts, a letter, a blank),
\* and the texts of the pages: a review count, a runtime, a rating.
MaxStrLen == 3
Alphabet == {"0", "1", "8", ".", ",", " ", "m"}
ReviewsText == <<"1", ",", "0", "8", "5", " ", "r", "e", "v", "i", "e", "w", "s">>
RuntimeText == <<"1", "2", "7", " ", "m", "i", "n">>
RatingText == <<"8", ".", "1">>
Strings ==
    UNION {[1..n -> Alphabet] : n \in 0..MaxStrLen}
        \cup {ReviewsText, RuntimeText, RatingText}
\* num_type: 'int' (the default), 'float', or anything else.
NumTypes == {"int", "float", "str"}

\* How many times the sample cell is run.
MaxSampleRuns == 1

VARIABLES
    cell,               \* the cell being run: "none", "sample", "single", "multi"
    runs,               \* cells run so far
    pc,                 \* the statement about to run
    years,              \* multi-year cell: the years still to come
    yr,                 \* the year of the batch
    tconsts,            \* movies_in_year['tconst'].values
    i,                  \* keys of tconsts the loop is done with
    annual_movie_list,
    fails,
    failed_list,
    rawdata,            \* rawdata/imdb_scrape_<yr>.tsv: year -> lines written
    posters,            \* posters/: <<imdb_id, ext>> -> image
    imdb_id,            \* imdb_scrape's parameters and locals
    save_image,
    soup,
    imdb_info_dict,
    img_status,
    exc,                \* the exception on its way to the caller, or "none"
    net,                \* the request the latest step sent
    string,             \* to_numeric's parameters and local, when it is called
    num_type,           \* on its own
    x,
    base,               \* history: len(failed_list) when the running cell began
    fetch_failed,       \* history: the keys whose page request raised in this run
    slept               \* history: time.sleep ran since the latest page request

vars ==
    <<cell, runs, pc, years, yr, tconsts, i, annual_movie_list, fails, failed_list,
      rawdata, posters, imdb_id, save_image, soup, imdb_info_dict, img_status, exc, net,
      string, num_type, x, base, fetch_failed, slept>>

driver == <<cell, runs, years, yr, tconsts, i, annual_movie_list, fails, failed_list, rawdata>>
history == <<base, fetch_failed, slept>>
batch == <<years, yr, tconsts, i, annual_movie_list, fails, failed_list, rawdata>>
frame == <<imdb_id, save_image, soup, imdb_info_dict, img_status, exc>>
numeric == <<string, num_type, x>>

\* The kernel with the functions defined and failed_list initialised (line 527
\* run once), no cell running, the posters/ and rawdata/ folders empty.
Fresh ==
    /\ runs = 0
    /\ years = <<>>
    /\ yr = 0
    /\ tconsts = <<>>
    /\ i = 0
    /\ annual_movie_list = <<>>
    /\ fails = 0
    /\ failed_list = <<>>
    /\ rawdata = [y \in {} |-> <<>>]
    /\ posters = [path \in {} |-> "img1"]
    /\ imdb_id = <<>>
    /\ save_image = FALSE
    /\ soup = NoPage
    /\ imdb_info_dict = NewInfoDict(<<>>)
    /\ img_status = "unset"
    /\ exc = "none"
    /\ net = NoRequest
    /\ base = 0
    /\ fetch_failed = {}
    /\ slept = FALSE

Init ==
    /\ cell = "none"
    /\ pc = "idle"
    /\ string = <<>>
    /\ num_type = "int"
    /\ x = EMPTY
    /\ Fresh

\* The same kernel about to evaluate to_numeric(string, num_type).
InitNumeric ==
    /\ cell = "numeric"
    /\ pc = "to_numeric"
    /\ string \in Strings
    /\ num_type \in NumTypes
    /\ x = EMPTY
    /\ Fresh

(***************************************************************************)
(* to_numeric called on its own (lines 74-87)                               *)
(***************************************************************************)
ToNumeric ==
    /\ cell = "numeric"
    /\ pc = "to_numeric"
    /\ LET r == to_numeric(string, num_type)
       IN IF r.exc # "none"
          THEN /\ pc' = "raised"
               /\ exc' = r.exc
               /\ x' = x
          ELSE /\ pc' = "returned"
               /\ exc' = exc
               /\ x' = r.val
    /\ UNCHANGED <<driver, posters, imdb_id, save_image, soup, imdb_info_dict, img_status,
                   net, string, num_type, history>>

(***************************************************************************)
(* imdb_scrape                                                              *)
(***************************************************************************)
\* imdb_scrape(id, flag) is called: lines 164-175.
Call(id, flag) ==
    /\ pc' = "get"
    /\ imdb_id' = id
    /\ save_image' = flag
    /\ soup' = NoPage
    /\ imdb_info_dict' = NewInfoDict(id)
    /\ img_status' = "unset"
    /\ exc' = "none"
    /\ net' = NoRequest

\* Lines 176-177: the page is requested; the request fails or a page comes back.
Get(pages) ==
    /\ pc = "get"
    /\ net' = PageRequest(imdb_id)
    /\ \/ /\ pc' = "raised"
          /\ exc' = "ConnectionError"
          /\ soup' = soup
          /\ fetch_failed' = fetch_failed \cup {imdb_id}
       \/ /\ \E page \in pages : soup' = page
          /\ pc' = "parse"
          /\ exc' = exc
          /\ fetch_failed' = fetch_failed
    /\ slept' = FALSE
    /\ UNCHANGED <<driver, posters, imdb_id, save_image, imdb_info_dict, img_status, base>>
    /\ UNCHANGED numeric

\* Lines 181-220.
Parse ==
    /\ pc = "parse"
    /\ LET r == ParsePage(soup, imdb_info_dict)
       IN IF r.exc # "none"
          THEN /\ pc' = "raised"
               /\ exc' = r.exc
               /\ imdb_info_dict' = imdb_info_dict
          ELSE /\ pc' = "poster"
               /\ exc' = exc
               /\ imdb_info_dict' = r.val
    /\ net' = NoRequest
    /\ UNCHANGED <<driver, posters, imdb_id, save_image, soup, img_status, history>>
    /\ UNCHANGED numeric

\* A Poster step that calls savePoster whatever save_image is.
Poster_Ungated ==
    /\ pc = "poster"
    /\ \E outcome \in ImageOutcomes :
          LET r == savePoster(posters, imdb_id, imdb_info_dict.poster_url.v, outcome)
          IN /\ posters' = r.folder
             /\ net' = r.net
             /\ IF r.exc # "none"
                THEN /\ pc' = "raised"
                     /\ exc' = r.exc
                     /\ img_status' = img_status
                ELSE /\ pc' = "sleep"
                     /\ exc' = exc
                     /\ img_status' = IF r.val THEN "True" ELSE "False"
    /\ UNCHANGED <<driver, imdb_id, save_image, soup, imdb_info_dict, history>>
    /\ UNCHANGED numeric

\* Lines 225-232.
Poster ==
    /\ pc = "poster"
    /\ IF save_image = TRUE
       THEN \E outcome \in ImageOutcomes :
               LET r == savePoster(posters, imdb_id, imdb_info_dict.poster_url.v, outcome)
               IN /\ posters' = r.folder
                  /\ net' = r.net
                  /\ IF r.exc # "none"
                     THEN /\ pc' = "raised"
                          /\ exc' = r.exc
                          /\ img_status' = img_status
                     ELSE /\ pc' = "sleep"
                          /\ exc' = exc
                          /\ img_status' = IF r.val THEN "True" ELSE "False"
       ELSE /\ pc' = "sleep"
            /\ UNCHANGED <<posters, exc, img_status>>
            /\ net' = NoRequest
    /\ UNCHANGED <<driver, imdb_id, save_image, soup, imdb_info_dict, history>>
    /\ UNCHANGED numeric

\* Line 235: time.sleep(random.randint(1,10) / 100)
Sleep ==
    /\ pc = "sleep"
    /\ pc' = "return"
    /\ net' = NoRequest
    /\ slept' = TRUE
    /\ UNCHANGED <<driver, posters, frame, base, fetch_failed>>
    /\ UNCHANGED numeric

\* Line 240: return imdb_info_dict
Return ==
    /\ pc = "return"
    /\ pc' = "returned"
    /\ net' = NoRequest
    /\ UNCHANGED <<driver, posters, frame, history>>
    /\ UNCHANGED numeric

\* The locals of imdb_scrape are gone once the call is over.
EndCall ==
    /\ imdb_id' = <<>>
    /\ save_image' = FALSE
    /\ soup' = NoPage
    /\ imdb_info_dict' = NewInfoDict(<<>>)
    /\ img_status' = "unset"
    /\ exc' = "none"
    /\ net' = NoRequest

(***************************************************************************)
(* The sample cell (lines 292-296)                                          *)
(***************************************************************************)
\* try: imdb_scrape('tt0107290', False, True); the flag is the caller's to set.
RunSample ==
    /\ cell = "none"
    /\ runs < MaxSampleRuns
    /\ cell' = "sample"
    /\ runs' = runs + 1
    /\ \E flag \in BOOLEAN : Call(K1, flag)
    /\ base' = Len(failed_list)
    /\ fetch_failed' = {}
    /\ slept' = FALSE
    /\ UNCHANGED <<batch, posters>>
    /\ UNCHANGED numeric

\* The call returned, or raised and `except Exception` printed 'error'.
SampleEnd ==
    /\ cell = "sample"
    /\ pc \in {"returned", "raised"}
    /\ cell' = "none"
    /\ pc' = "idle"
    /\ EndCall
    /\ UNCHANGED <<runs, batch, posters, history>>
    /\ UNCHANGED numeric

(***************************************************************************)
(* The single-year cell (lines 352-389) and the multi-year cell (524-561)   *)
(***************************************************************************)
\* Lines 533-543 (369-370): the keys of the year, an empty list, no fails.
BeginYear(y) ==
    /\ yr' = y
    /\ tconsts' = TconstsOf(movie_df, y)
    /\ annual_movie_list' = <<>>
    /\ fails' = 0
    /\ i' = 0
    /\ pc' = "loop"

\* Lines 352-370: failed_list = [], yr = y.
RunSingleYear ==
    /\ cell = "none"
    /\ runs < MaxRuns
    /\ cell' = "single"
    /\ runs' = runs + 1
    /\ failed_list' = <<>>
    /\ base' = 0
    /\ fetch_failed' = {}
    /\ slept' = FALSE
    /\ \E y \in Years : BeginYear(y)
    /\ UNCHANGED <<years, rawdata, posters, frame, net>>
    /\ UNCHANGED numeric

\* A multi-year cell with line 527 not commented out: failed_list = []
RunMultiYear_Reset ==
    /\ cell = "none"
    /\ runs < MaxRuns
    /\ cell' = "multi"
    /\ runs' = runs + 1
    /\ years' = years_to_scrape_list
    /\ pc' = "year"
    /\ failed_list' = <<>>
    /\ base' = 0
    /\ fetch_failed' = {}
    /\ slept' = FALSE
    /\ UNCHANGED <<yr, tconsts, i, annual_movie_list, fails, rawdata, posters, frame, net>>
    /\ UNCHANGED numeric

\* Lines 524-532: failed_list is left as it is (line 527 is commented out).
RunMultiYear ==
    /\ cell = "none"
    /\ runs < MaxRuns
    /\ cell' = "multi"
    /\ runs' = runs + 1
    /\ years' = years_to_scrape_list
    /\ pc' = "year"
    /\ base' = Len(failed_list)
    /\ fetch_failed' = {}
    /\ slept' = FALSE
    /\ UNCHANGED <<yr, tconsts, i, annual_movie_list, fails, failed_list, rawdata,
                   posters, frame, net>>
    /\ UNCHANGED numeric

\* Line 533: for yr in years_to_scrape_list, with lines 534-543; the cell ends
\* when no year is left.
YearStart ==
    /\ cell = "multi"
    /\ pc = "year"
    /\ IF years = <<>>
       THEN /\ cell' = "none"
            /\ pc' = "idle"
            /\ UNCHANGED <<years, yr, tconsts, i, annual_movie_list, fails>>
       ELSE /\ BeginYear(Head(years))
            /\ years' = Tail(years)
            /\ cell' = cell
    /\ UNCHANGED <<runs, failed_list, rawdata, posters, frame, net, history>>
    /\ UNCHANGED numeric

\* A loop that calls imdb_scrape for the next key as soon as the call before has
\* returned, its Record not yet appended.
LoopCall_Early ==
    /\ cell \in {"single", "multi"}
    /\ pc \in {"loop", "returned"}
    /\ i < Len(tconsts)
    /\ Call(tconsts[i + 1], TRUE)
    /\ UNCHANGED <<driver, posters, history>>
    /\ UNCHANGED numeric

\* Lines 372-375 (544-547): the next key; imdb_scrape(tconst, True) is called.
LoopCall ==
    /\ cell \in {"single", "multi"}
    /\ pc = "loop"
    /\ i < Len(tconsts)
    /\ Call(tconsts[i + 1], TRUE)
    /\ UNCHANGED <<driver, posters, history>>
    /\ UNCHANGED numeric

\* Line 376 (548): annual_movie_list.append(scraped_movie_info)
LoopAppend ==
    /\ cell \in {"single", "multi"}
    /\ pc = "returned"
    /\ annual_movie_list' = Append(annual_movie_list, imdb_info_dict)
    /\ i' = i + 1
    /\ pc' = "loop"
    /\ EndCall
    /\ UNCHANGED <<cell, runs, years, yr, tconsts, fails, failed_list, rawdata, posters,
                   history>>
    /\ UNCHANGED numeric

\* A LoopExcept that counts the failure and forgets the key.
LoopExcept_NoAppend ==
    /\ cell \in {"single", "multi"}
    /\ pc = "raised"
    /\ failed_list' = failed_list
    /\ fails' = fails + 1
    /\ i' = i + 1
    /\ pc' = "loop"
    /\ EndCall
    /\ UNCHANGED <<cell, runs, years, yr, tconsts, annual_movie_list, rawdata, posters,
                   history>>
    /\ UNCHANGED numeric

\* A LoopExcept that records the failure and tries the same key again.
LoopExcept_Retry ==
    /\ cell \in {"single", "multi"}
    /\ pc = "raised"
    /\ failed_list' = Append(failed_list, tconsts[i + 1])
    /\ fails' = fails + 1
    /\ i' = i
    /\ pc' = "loop"
    /\ EndCall
    /\ UNCHANGED <<cell, runs, years, yr, tconsts, annual_movie_list, rawdata, posters,
                   history>>
    /\ UNCHANGED numeric

\* Lines 377-380 (549-552): except Exception: failed_list.append(tconst); fails+=1
LoopExcept ==
    /\ cell \in {"single", "multi"}
    /\ pc = "raised"
    /\ failed_list' = Append(failed_list, tconsts[i + 1])
    /\ fails' = fails + 1
    /\ i' = i + 1
    /\ pc' = "loop"
    /\ EndCall
    /\ UNCHANGED <<cell, runs, years, yr, tconsts, annual_movie_list, rawdata, posters,
                   history>>
    /\ UNCHANGED numeric

\* Lines 382-389 (554-561): the batch is written to rawdata/imdb_scrape_<yr>.tsv
\* by to_csv.
YearEnd ==
    /\ cell \in {"single", "multi"}
    /\ pc = "loop"
    /\ i = Len(tconsts)
    /\ rawdata' = (yr :> to_csv(annual_movie_list)) @@ rawdata
    /\ IF cell = "single"
       THEN /\ cell' = "none"
            /\ pc' = "idle"
       ELSE /\ cell' = cell
            /\ pc' = "year"
    /\ UNCHANGED <<runs, years, yr, tconsts, i, annual_movie_list, fails, failed_list,
                   posters, frame, net, history>>
    /\ UNCHANGED numeric

\* The batch cells, the network answering with one of BatchPages.
Next ==
    \/ RunSingleYear
    \/ RunMultiYear
    \/ YearStart
    \/ LoopCall
    \/ Get(BatchPages)
    \/ Parse
    \/ Poster
    \/ Sleep
    \/ Return
    \/ LoopAppend
    \/ LoopExcept
    \/ YearEnd

Spec == Init /\ [][Next]_vars

\* The sample cell, the network answering with any page of Docs.
NextScrape ==
    \/ RunSample
    \/ Get(Docs)
    \/ Parse
    \/ Poster
    \/ Sleep
    \/ Return
    \/ SampleEnd

SpecScrape == Init /\ [][NextScrape]_vars

\* to_numeric on its own, on every text of Strings and every num_type.
NextNumeric == ToNumeric

SpecNumeric == InitNumeric /\ [][NextNumeric]_vars

(***************************************************************************)
(* Properties                                                               *)
(***************************************************************************)
InBatch == cell \in {"single", "multi"}

\* The loop is between two keys (or past the last one).
AtLoop == InBatch /\ pc = "loop"

\* Which step of imdb_scrape raised: the step that raises leaves its request in net.
FetchRaised == pc = "raised" /\ net.kind = "page"
ParseRaised == pc = "raised" /\ net.kind = "none"
PosterRaised == pc = "raised" /\ net.kind = "image"

\* Lines 181-220 ran to their end.
Parsed == pc \in {"poster", "sleep", "return", "returned"}

\* Lines 181-220 ran, to their end or to an exception.
AfterParse == Parsed \/ ParseRaised \/ PosterRaised

\* The page has a payload block and the first one decodes.
PayloadOk(d) == d.scripts # <<>> /\ d.scripts[1].decodes

HasDigit(t) == \E n \in 1..Len(t) : IsDigit(t[n])

Occurrences(seq, k) == Cardinality({n \in 1..Len(seq) : seq[n] = k})

\* The entries the running cell added to failed_list.
NewFails == SubSeq(failed_list, base + 1, Len(failed_list))

HasRecord(k) ==
    \E n \in 1..Len(annual_movie_list) : annual_movie_list[n].tconst = PyStr(k)

\* The dictionary the sample run of the notebook shows for a page with every part,
\* written out for FullDoc.
FullInfo(id) ==
    [tconst |-> PyStr(id), title |-> PyStr(<<"J", "P">>), release_year |-> PyInt(1993),
     release_date |-> PyStr(<<"1", "1", " ", "J", "u", "n">>), MPAA |-> PyStr(<<"P", "G">>),
     genre |-> PyList(<<PyStr(<<"A", "c">>), PyStr(<<"S", "F">>)>>),
     runtime |-> PyInt(127), poster_url |-> PyStr(<<"u", ".", "j">>),
     plot_short |-> PyStr(<<"A", " ", "p", "l", "o", "t", ".">>),
     plot_long |-> PyStr(<<"L", "o", "n", "g">>), imdb_rating |-> PyFloat(81, 1),
     num_imdb_votes |-> PyInt(820733), metacritic |-> PyInt(68),
     num_user_reviews |-> PyInt(1085), num_critic_reviews |-> PyInt(355)]

\* The page differs from FullDoc in the part f alone, which is absent.
OnlyAbsent(f) == soup = [FullDoc EXCEPT ![f] = <<>>]

\* The page differs from FullDoc in the part f at most.
OnlyDiffers(f) == soup = [FullDoc EXCEPT ![f] = soup[f]]

(***************************************************************************)
(* C1.  As claimed: at every loop boundary of a batch, a key whose page     *)
(* request raised is in the failure list exactly once and has no Record,    *)
(* and every other key the loop is done with has a Record or is in the      *)
(* failure list.                                                            *)
(***************************************************************************)
C1_FailedKeyOnceInList ==
    AtLoop =>
        \A j \in 1..i :
            IF tconsts[j] \in fetch_failed
            THEN Occurrences(failed_list, tconsts[j]) = 1 /\ ~HasRecord(tconsts[j])
            ELSE HasRecord(tconsts[j]) \/ Occurrences(failed_list, tconsts[j]) >= 1

(***************************************************************************)
(* C1, amended.  At every loop boundary of a batch, a key whose page        *)
(* request raised has no Record and was appended to the failure list        *)
(* exactly once by the running cell, and every other key the loop is done   *)
(* with has a Record and no new entry, or no Record and one new entry.      *)
(***************************************************************************)
C1_FailedKeyAppendedOnce ==
    AtLoop =>
        \A j \in 1..i :
            IF tconsts[j] \in fetch_failed
            THEN Occurrences(NewFails, tconsts[j]) = 1 /\ ~HasRecord(tconsts[j])
            ELSE \/ HasRecord(tconsts[j]) /\ Occurrences(NewFails, tconsts[j]) = 0
                 \/ ~HasRecord(tconsts[j]) /\ Occurrences(NewFails, tconsts[j]) = 1

\* The first key's page request raised and the second key has its Record.
C1_Witness ==
    /\ AtLoop
    /\ i = 2
    /\ tconsts[1] \in fetch_failed
    /\ tconsts[2] \notin fetch_failed
    /\ HasRecord(tconsts[2])
    /\ failed_list = <<tconsts[1]>>

(***************************************************************************)
(* C2.  As claimed: on a page that is FullDoc without one of the runtime,   *)
(* title-header, critic-score, review-bar, short-summary or story-line      *)
(* elements, lines 181-220 raise nothing.                                   *)
(***************************************************************************)
C2_EveryLookupOptional ==
    \A f \in {"time", "title_wrapper", "metacriticScore", "reviewBar", "summary_text",
              "titleStoryLine"} :
        (OnlyAbsent(f) /\ AfterParse) => ~ParseRaised

\* The page is FullDoc but for an absent critic score, an absent review bar or a
\* story line without paragraph, in any combination.
OnlyOptionalMissing ==
    \A f \in DOMAIN FullDoc :
        \/ soup[f] = FullDoc[f]
        \/ f \in {"metacriticScore", "reviewBar"} /\ soup[f] = <<>>
        \/ f = "titleStoryLine" /\ soup[f] = <<StoryLine(<<>>)>>

(***************************************************************************)
(* C2, amended.  Only the critic score, the review bar and the paragraph    *)
(* of the story line are optional: a page that lacks any of them, and       *)
(* nothing else, gives the dictionary of the full page with exactly the     *)
(* fields of the missing parts left at ''.  A page that lacks the runtime   *)
(* element, the title header, the short summary or the story-line           *)
(* container makes lines 181-220 raise.                                     *)
(***************************************************************************)
C2_OnlyGuardedLookupsOptional ==
    /\ (OnlyOptionalMissing /\ AfterParse) =>
          /\ ~ParseRaised
          /\ imdb_info_dict =
                [FullInfo(imdb_id) EXCEPT
                    !.metacritic = IF soup.metacriticScore = <<>> THEN EMPTY ELSE @,
                    !.num_user_reviews = IF soup.reviewBar = <<>> THEN EMPTY ELSE @,
                    !.num_critic_reviews = IF soup.reviewBar = <<>> THEN EMPTY ELSE @,
                    !.plot_long = IF soup.titleStoryLine = <<StoryLine(<<>>)>> THEN EMPTY ELSE @]
    /\ \A f \in {"time", "title_wrapper", "summary_text", "titleStoryLine"} :
          (OnlyAbsent(f) /\ AfterParse) => ParseRaised

\* A Record is returned for a page without critic score and without review bar.
C2_Witness ==
    /\ pc = "returned"
    /\ soup = [FullDoc EXCEPT !.metacriticScore = <<>>, !.reviewBar = <<>>]
    /\ imdb_info_dict.metacritic = EMPTY
    /\ imdb_info_dict.num_user_reviews = EMPTY
    /\ imdb_info_dict.runtime = PyInt(127)
    /\ imdb_info_dict.plot_long = PyStr(<<"L", "o", "n", "g">>)

(***************************************************************************)
(* C3.  As claimed: with save_image true, the poster step never raises:     *)
(* imdb_scrape goes on to return its dictionary.                            *)
(***************************************************************************)
C3_PosterFailureNotRaised == [][(pc = "poster" /\ save_image) => pc' = "sleep"]_vars

(***************************************************************************)
(* C3, amended.  A failure of savePoster is raised out of imdb_scrape: the  *)
(* poster step ends in an exception (ConnectionError, OSError) only when    *)
(* the file was not there, and leaves posters/ as it was; the batch loop    *)
(* then appends the key to failed_list and no Record to the batch.  The     *)
(* status False is given only when the file already exists, and then the    *)
(* call goes on to return.                                                  *)
(***************************************************************************)
C3_PosterFailureRaised ==
    /\ [][pc = "poster" =>
            LET path == PosterPath(imdb_id, imdb_info_dict.poster_url.v)
            IN /\ pc' \in {"sleep", "raised"}
               /\ pc' = "raised" =>
                     /\ exc' \in {"ConnectionError", "OSError"}
                     /\ path \notin DOMAIN posters
                     /\ posters' = posters
               /\ img_status' = "False" => (path \in DOMAIN posters /\ pc' = "sleep")
               /\ img_status' = "True" => (path \in DOMAIN posters' /\ pc' = "sleep")]_vars
    /\ [][(InBatch /\ PosterRaised) =>
            /\ failed_list' = Append(failed_list, imdb_id)
            /\ annual_movie_list' = annual_movie_list
            /\ rawdata' = rawdata]_vars

\* In a batch, savePoster raised on a page that was parsed to its end.
C3_Witness ==
    /\ InBatch
    /\ PosterRaised
    /\ imdb_info_dict = FullInfo(imdb_id)
    /\ exc \in {"ConnectionError", "OSError"}

(***************************************************************************)
(* C4.  No step removes or changes a file of posters/.  When the file of    *)
(* the key and extension exists, the poster step sends no request, leaves   *)
(* posters/ as it is and gives the status False; when it does not exist     *)
(* and nothing is raised, the step requests the image, gives the status     *)
(* True and the file exists afterwards.                                     *)
(***************************************************************************)
C4_WriteOnce ==
    [][/\ \A path \in DOMAIN posters :
             path \in DOMAIN posters' /\ posters'[path] = posters[path]
       /\ (pc = "poster" /\ save_image) =>
             LET img_url == imdb_info_dict.poster_url.v
                 path == <<imdb_id, SplitLast(img_url, <<".">>)>>
             IN IF path \in DOMAIN posters
                THEN /\ pc' = "sleep"
                     /\ img_status' = "False"
                     /\ net' = NoRequest
                     /\ posters' = posters
                ELSE /\ net' = ImageRequest(img_url)
                     /\ pc' = "sleep" =>
                           /\ img_status' = "True"
                           /\ path \in DOMAIN posters'
                           /\ DOMAIN posters' = DOMAIN posters \cup {path}]_vars

\* A second call for a key whose poster was saved by an earlier run was skipped.
C4_Witness ==
    /\ InBatch
    /\ pc = "sleep"
    /\ img_status = "False"
    /\ net = NoRequest
    /\ <<imdb_id, <<"j">>>> \in DOMAIN posters

(***************************************************************************)
(* C5.  As claimed: a call without poster saving whose page was fetched     *)
(* with a payload block that decodes (and with the year anchor) ends by     *)
(* returning a dictionary whose tconst is the key.                          *)
(***************************************************************************)
C5_PayloadOkReturnsRecord ==
    (/\ cell = "sample"
     /\ pc \in {"returned", "raised"}
     /\ ~save_image
     /\ PayloadOk(soup)
     /\ soup.titleYear = FullDoc.titleYear) =>
        (pc = "returned" /\ imdb_info_dict.tconst = PyStr(imdb_id))

(***************************************************************************)
(* C5, amended.  Throughout a call the tconst of imdb_info_dict is the key  *)
(* the call was given, so every dictionary returned carries it; a Record    *)
(* is returned only for a page whose first payload block decodes, but not   *)
(* for every such page.                                                     *)
(***************************************************************************)
C5_ReturnedRecordHasKey ==
    /\ (cell = "sample" /\ pc # "idle") =>
          (imdb_id = K1 /\ imdb_info_dict.tconst = PyStr(imdb_id))
    /\ pc = "returned" => PayloadOk(soup)

\* A dictionary is returned with its key, two optional fields left unset.
C5_Witness ==
    /\ cell = "sample"
    /\ pc = "returned"
    /\ imdb_info_dict.tconst = PyStr(K1)
    /\ imdb_info_dict.MPAA = EMPTY
    /\ imdb_info_dict.metacritic = EMPTY

(***************************************************************************)
(* C6.  On a page with no payload block, or whose first payload block does  *)
(* not decode, lines 181-220 raise (IndexError, JSONDecodeError) at their   *)
(* first statement; the batch loop then appends the key to failed_list and  *)
(* nothing to annual_movie_list, and the rows written for the year are one  *)
(* per dictionary of annual_movie_list, with its key.                       *)
(***************************************************************************)
C6_PayloadFailureIsRecordLevel ==
    /\ [][(pc = "parse" /\ ~PayloadOk(soup)) =>
            /\ pc' = "raised"
            /\ exc' = IF soup.scripts = <<>> THEN "IndexError" ELSE "JSONDecodeError"]_vars
    /\ [][(InBatch /\ ParseRaised /\ ~PayloadOk(soup)) =>
            /\ failed_list' = Append(failed_list, imdb_id)
            /\ annual_movie_list' = annual_movie_list
            /\ rawdata' = rawdata]_vars
    /\ [][(AtLoop /\ i = Len(tconsts)) =>
            /\ yr \in DOMAIN rawdata'
            /\ Len(rawdata'[yr]) = Len(annual_movie_list)
            /\ \A n \in 1..Len(annual_movie_list) :
                   rawdata'[yr][n].tconst = Quoted(annual_movie_list[n].tconst.v)]_vars

\* In a batch, a page whose first block does not decode, a good block after it.
C6_Witness ==
    /\ InBatch
    /\ ParseRaised
    /\ exc = "JSONDecodeError"
    /\ Len(soup.scripts) = 2
    /\ soup.scripts[2].decodes

(***************************************************************************)
(* C7.  As claimed: on a page that is FullDoc with a payload lacking        *)
(* contentRating, aggregateRating.ratingValue or aggregateRating.           *)
(* ratingCount, lines 181-220 raise nothing.                                *)
(***************************************************************************)
C7_OptionalPayloadKeysAbsent ==
    \A scripts \in
        {<<Block(Without(FullJson, "contentRating")), Block(FullJson)>>,
         <<Block([FullJson EXCEPT !.aggregateRating = Without(FullRating, "ratingValue")])>>,
         <<Block([FullJson EXCEPT !.aggregateRating = Without(FullRating, "ratingCount")])>>} :
        (soup = [FullDoc EXCEPT !.scripts = scripts] /\ AfterParse) => ~ParseRaised

\* The payload has aggregateRating with its two keys.
HasRatingKeys(json_dict) ==
    /\ "aggregateRating" \in DOMAIN json_dict
    /\ {"ratingValue", "ratingCount"} \subseteq DOMAIN json_dict.aggregateRating

(***************************************************************************)
(* C7, amended.  Of the payload keys only contentRating is optional: when   *)
(* it is missing MPAA stays '' and the other fields are filled.  A payload  *)
(* without aggregateRating, ratingValue or ratingCount makes lines 181-220  *)
(* raise KeyError, so every dictionary returned comes from a payload with   *)
(* both rating keys.                                                        *)
(***************************************************************************)
C7_OnlyContentRatingOptional ==
    /\ Parsed =>
          LET json_dict == soup.scripts[1].json
          IN /\ HasRatingKeys(json_dict)
             /\ imdb_info_dict.MPAA =
                   IF "contentRating" \in DOMAIN json_dict
                   THEN json_dict.contentRating ELSE EMPTY
    /\ (soup = [FullDoc EXCEPT !.scripts =
                    <<Block(Without(FullJson, "contentRating")), Block(FullJson)>>]
        /\ AfterParse) =>
          (~ParseRaised /\ imdb_info_dict = [FullInfo(imdb_id) EXCEPT !.MPAA = EMPTY])
    /\ (OnlyDiffers("scripts") /\ PayloadOk(soup) /\ AfterParse
        /\ {"name", "image", "genre"} \subseteq DOMAIN soup.scripts[1].json
        /\ ~HasRatingKeys(soup.scripts[1].json)) =>
          (ParseRaised /\ exc = "KeyError")

\* A Record is returned for a payload without contentRating.
C7_Witness ==
    /\ pc = "returned"
    /\ PayloadOk(soup)
    /\ "contentRating" \notin DOMAIN soup.scripts[1].json
    /\ imdb_info_dict.MPAA = EMPTY
    /\ imdb_info_dict.imdb_rating = PyFloat(81, 1)
    /\ imdb_info_dict.num_imdb_votes = PyInt(820733)

\* The pages that are FullDoc but for a text without digits handed to to_numeric.
NoDigitPages ==
    {[FullDoc EXCEPT !.time = <<[datetime |-> <<"P", "T", "M">>]>>],
     [FullDoc EXCEPT !.reviewBar = <<WithLinks(<<NoDigitLink>>)>>],
     [FullDoc EXCEPT !.reviewBar = <<WithLinks(<<UserLink, NoDigitLink>>)>>]}

(***************************************************************************)
(* C8.  As claimed: on a page that is FullDoc but for a runtime attribute   *)
(* or a review link without digits, lines 181-220 raise nothing.            *)
(***************************************************************************)
C8_NoDigitsIsFieldAbsence == (soup \in NoDigitPages /\ AfterParse) => ~ParseRaised

(***************************************************************************)
(* C8, amended.  The ValueError of to_numeric on a text without digits is   *)
(* not caught in imdb_scrape: on such a page lines 181-220 raise            *)
(* ValueError, and whenever they run to their end the runtime attribute     *)
(* and each review link that was read held a digit.                         *)
(***************************************************************************)
C8_NoDigitsRaises ==
    /\ (soup \in NoDigitPages /\ AfterParse) => (ParseRaised /\ exc = "ValueError")
    /\ Parsed =>
          /\ HasDigit(soup.time[1].datetime)
          /\ soup.reviewBar # <<>> =>
                \A n \in 1..Len(soup.reviewBar[1].links) :
                    n <= 2 => HasDigit(soup.reviewBar[1].links[n])

\* The runtime attribute has no digit and ValueError is on its way to the caller.
C8_Witness ==
    /\ soup = [FullDoc EXCEPT !.time = <<[datetime |-> <<"P", "T", "M">>]>>]
    /\ ParseRaised
    /\ exc = "ValueError"

\* The count a review link shows.
LinkCount(t) ==
    CASE t = UserLink -> PyInt(1085)
      [] t = CriticLink -> PyInt(355)
      [] t = <<"9">> -> PyInt(9)
      [] OTHER -> EMPTY

\* num_user_reviews and num_critic_reviews as the number of links decides them.
ReviewFieldsByLinkCount ==
    LET links == IF soup.reviewBar = <<>> THEN <<>> ELSE soup.reviewBar[1].links
    IN /\ imdb_info_dict.num_user_reviews =
             IF Len(links) >= 1 THEN LinkCount(links[1]) ELSE EMPTY
       /\ imdb_info_dict.num_critic_reviews =
             IF Len(links) >= 2 THEN LinkCount(links[2]) ELSE EMPTY

(***************************************************************************)
(* C9.  As claimed: on a page that is FullDoc but for its review bar,       *)
(* lines 181-220 raise nothing and the two review fields are decided by     *)
(* the number of links.                                                     *)
(***************************************************************************)
C9_ReviewCountsNeverRaise ==
    (OnlyDiffers("reviewBar") /\ AfterParse) => (~ParseRaised /\ ReviewFieldsByLinkCount)

(***************************************************************************)
(* C9, amended.  Whenever lines 181-220 run to their end the two review     *)
(* fields are decided by the links of the first review bar: none without    *)
(* a bar or without links, the user count from the first link, the critic   *)
(* count from the second.  On a page that is FullDoc but for its review     *)
(* bar they raise exactly when the first or the second link has no digit.   *)
(***************************************************************************)
C9_ReviewCountsByLinks ==
    /\ Parsed => ReviewFieldsByLinkCount
    /\ (OnlyDiffers("reviewBar") /\ AfterParse) =>
          LET links == IF soup.reviewBar = <<>> THEN <<>> ELSE soup.reviewBar[1].links
          IN ParseRaised <=> \E n \in 1..Len(links) : n <= 2 /\ ~HasDigit(links[n])

\* One link: the user count is set and the critic count is not.
C9_Witness ==
    /\ pc = "returned"
    /\ soup.reviewBar = <<WithLinks(<<UserLink>>)>>
    /\ imdb_info_dict.num_user_reviews = PyInt(1085)
    /\ imdb_info_dict.num_critic_reviews = EMPTY

(***************************************************************************)
(* C10.  As claimed: plot_short is the trimmed text of the short summary,   *)
(* and '' when the trimmed text is the placeholder itself.                  *)
(***************************************************************************)
C10_EmptyOnlyForExactPlaceholder ==
    Parsed =>
        LET text == Strip(soup.summary_text[1].text)
        IN imdb_info_dict.plot_short = IF text = AddAPlot THEN EMPTY ELSE PyStr(text)

(***************************************************************************)
(* C10, amended.  plot_short is the trimmed text of the short summary, and  *)
(* '' whenever the trimmed text contains the placeholder 'Add a Plot'.      *)
(***************************************************************************)
C10_EmptyWhenPlaceholderOccurs ==
    Parsed =>
        LET text == Strip(soup.summary_text[1].text)
        IN /\ imdb_info_dict.plot_short =
                 IF Contains(AddAPlot, text) THEN EMPTY ELSE PyStr(text)
           /\ soup.summary_text = FullDoc.summary_text =>
                 imdb_info_dict.plot_short = PyStr(<<"A", " ", "p", "l", "o", "t", ".">>)
           /\ text = AddAPlot \o <<" ", ">">> => imdb_info_dict.plot_short = EMPTY

\* The placeholder followed by more text gives an empty plot_short.
C10_Witness ==
    /\ pc = "returned"
    /\ Strip(soup.summary_text[1].text) = AddAPlot \o <<" ", ">">>
    /\ imdb_info_dict.plot_short = EMPTY

(***************************************************************************)
(* C11.  to_numeric in 'int' and in 'float' mode removes every character    *)
(* that is not a decimal digit, keeps the remaining digits in their order   *)
(* and parses that run of digits: "1,085 reviews" gives 1085, "127 min"     *)
(* gives 127 and "8.1" in float mode gives 81.  It raises exactly when the  *)
(* text has no digit.                                                       *)
(***************************************************************************)
RECURSIVE Pow10(_)
Pow10(n) == IF n = 0 THEN 1 ELSE 10 * Pow10(n - 1)

\* The positions of s that hold a decimal digit.
DigitPositions(s) == {k \in 1..Len(s) : IsDigit(s[k])}

\* The number written by the digits of s read left to right: the digit at
\* position k counts 10 to the number of digits to its right.
RECURSIVE PlaceValue(_, _)
PlaceValue(s, k) ==
    IF k = 0 THEN 0
    ELSE PlaceValue(s, k - 1) +
         (IF IsDigit(s[k])
          THEN DigitVal[s[k]] * Pow10(Cardinality({j \in DigitPositions(s) : j > k}))
          ELSE 0)

NumericDone == cell = "numeric" /\ pc \in {"returned", "raised"}

C11_DigitsKeptAndParsed ==
    (NumericDone /\ num_type \in {"int", "float"}) =>
        /\ (pc = "raised") = (DigitPositions(string) = {})
        /\ pc = "raised" => exc = "ValueError"
        /\ (pc = "returned" /\ num_type = "int") =>
               x = PyInt(PlaceValue(string, Len(string)))
        /\ (pc = "returned" /\ num_type = "float") =>
               x = PyFloat(PlaceValue(string, Len(string)), 0)
        /\ (pc = "returned" /\ string = ReviewsText /\ num_type = "int") => x = PyInt(1085)
        /\ (pc = "returned" /\ string = RuntimeText /\ num_type = "int") => x = PyInt(127)
        /\ (pc = "returned" /\ string = RatingText /\ num_type = "float") => x = PyFloat(81, 0)
        /\ string \in {ReviewsText, RuntimeText, RatingText} => pc = "returned"

\* "8.1" has gone through to_numeric in float mode and came out as 81.0.
C11_Witness ==
    /\ NumericDone
    /\ string = RatingText
    /\ num_type = "float"
    /\ pc = "returned"
    /\ x = PyFloat(81, 0)

(***************************************************************************)
(* C12.  For a page on which the payload and every markup selector are      *)
(* present, imdb_scrape returns a Record whose payload-derived fields are   *)
(* the payload values unchanged (title = name, poster_url = image, genre =  *)
(* the genre sequence in its order, imdb_rating = the rating 8.1 itself and *)
(* not the digit-stripped 81, num_imdb_votes = ratingCount) and whose       *)
(* markup-derived fields are the integers read from the markup (1993, 127,  *)
(* 68), as in the sample run.                                               *)
(***************************************************************************)
C12_RecordOfFullPage ==
    (cell = "sample" /\ Parsed /\ PayloadOk(soup)) =>
        LET json_dict == soup.scripts[1].json
        IN /\ imdb_info_dict.title = json_dict.name
           /\ imdb_info_dict.poster_url = json_dict.image
           /\ imdb_info_dict.genre = json_dict.genre
           /\ imdb_info_dict.num_imdb_votes = json_dict.aggregateRating.ratingCount
           /\ imdb_info_dict.imdb_rating = PyFloat(81, 1)
           /\ imdb_info_dict.imdb_rating # PyFloat(81, 0)
           /\ soup = FullDoc =>
                  /\ imdb_info_dict.release_year = PyInt(1993)
                  /\ imdb_info_dict.runtime = PyInt(127)
                  /\ imdb_info_dict.metacritic = PyInt(68)
                  /\ imdb_info_dict = FullInfo(imdb_id)
                  /\ pc = "returned" => exc = "none"

\* The sample call has returned the Record of the full page, rating 8.1.
C12_Witness ==
    /\ cell = "sample"
    /\ pc = "returned"
    /\ soup = FullDoc
    /\ imdb_info_dict.imdb_rating = PyFloat(81, 1)
    /\ imdb_info_dict.genre = FullJson.genre
    /\ imdb_info_dict.metacritic = PyInt(68)

(***************************************************************************)
(* C13.  As claimed: the file written for a year has one row per Record of  *)
(* the batch, and the genre cell of each row is the genre list's elements   *)
(* joined in their order with nothing between them.                         *)
(***************************************************************************)
C13_GenresFlattened ==
    (pc \in {"year", "idle"} /\ yr \in DOMAIN rawdata) =>
        /\ Len(rawdata[yr]) = Len(annual_movie_list)
        /\ \A n \in 1..Len(annual_movie_list) :
               rawdata[yr][n].genre =
                   Quoted(concatenate_list_data(annual_movie_list[n].genre.v))

InCall == pc \in {"get", "parse", "poster", "sleep", "return", "returned", "raised"}

\* The keys the running cell put on the failure list.
NewFailSet == {NewFails[n] : n \in 1..Len(NewFails)}

Settled(j) == HasRecord(tconsts[j]) \/ tconsts[j] \in NewFailSet

C15_OneKeyAtATime ==
    /\ [][(InBatch /\ pc' = "get") =>
            /\ pc = "loop"
            /\ imdb_id' = tconsts[i + 1]
            /\ \A j \in 1..i : Settled(j)
            /\ i > 0 =>
                  \/ /\ annual_movie_list # <<>>
                     /\ annual_movie_list[Len(annual_movie_list)].tconst = PyStr(tconsts[i])
                  \/ /\ failed_list # <<>>
                     /\ failed_list[Len(failed_list)] = tconsts[i]]_vars
    /\ [][(InBatch /\ net'.kind = "page") =>
            /\ pc = "get"
            /\ net' = PageRequest(tconsts[i + 1])]_vars
    /\ [](InBatch /\ InCall =>
            /\ i < Len(tconsts)
            /\ imdb_id = tconsts[i + 1]
            /\ Len(annual_movie_list) + fails = i
            /\ ~HasRecord(imdb_id)
            /\ \A j \in 1..i : Settled(j))

\* The page of the second key of a year has been requested; the first key has
\* its Record, saved poster included.
C15_Witness ==
    /\ InBatch
    /\ i = 1
    /\ pc = "parse"
    /\ net = PageRequest(tconsts[2])
    /\ HasRecord(tconsts[1])
    /\ <<tconsts[1], <<"j">>>> \in DOMAIN posters

(***************************************************************************)
(* C16.  As claimed: in a batch, between the page request of a key and the  *)
(* page request of the next key the delay of line 235 is executed, whether  *)
(* the earlier key ended with a Record or on the failure list.              *)
(***************************************************************************)
C16_DelayAfterEveryKey ==
    [][(InBatch /\ pc = "get" /\ i > 0) => slept]_vars

(***************************************************************************)
(* C17.  Within a batch every position of the key list is attempted once    *)
(* and ends in one of two places.  The call for a position ends by the      *)
(* loop moving to the next position with either its Record appended to      *)
(* annual_movie_list (failed_list and fails as they were) or its key        *)
(* appended to failed_list and fails one more (annual_movie_list as it      *)
(* was); only those two steps move the loop.  At every loop boundary        *)
(* len(annual_movie_list) + fails = i, each of the i positions done is      *)
(* either in the batch list or among the failures of the year, never both,  *)
(* and the batch list holds the Records in the order of the key list.       *)
(***************************************************************************)
\* The keys failed_list got in the batch of the year: its last `fails` entries.
YearFails == SubSeq(failed_list, Len(failed_list) - fails + 1, Len(failed_list))

\* The position of a key in the key list of the year.
PositionOf(k) == CHOOSE j \in 1..Len(tconsts) : tconsts[j] = k

C17_EachKeyOnceInOnePlace ==
    /\ [][(InBatch /\ pc \in {"returned", "raised"}) =>
            /\ i' = i + 1
            /\ pc' = "loop"
            /\ IF pc = "returned"
               THEN /\ annual_movie_list' = Append(annual_movie_list, imdb_info_dict)
                    /\ imdb_info_dict.tconst = PyStr(tconsts[i + 1])
                    /\ failed_list' = failed_list
                    /\ fails' = fails
               ELSE /\ failed_list' = Append(failed_list, tconsts[i + 1])
                    /\ fails' = fails + 1
                    /\ annual_movie_list' = annual_movie_list]_vars
    /\ [][(InBatch /\ cell' = cell /\ pc \in {"loop"} \cup {"get", "parse", "poster", "sleep", "return"}
              /\ pc' # "year") =>
            /\ i' = i
            /\ annual_movie_list' = annual_movie_list
            /\ failed_list' = failed_list
            /\ fails' = fails]_vars
    /\ [](AtLoop =>
            /\ Len(annual_movie_list) + fails = i
            /\ fails <= Len(failed_list)
            /\ \A j \in 1..i :
                   HasRecord(tconsts[j]) #
                       (\E n \in 1..Len(YearFails) : YearFails[n] = tconsts[j])
            /\ \A n \in 1..Len(annual_movie_list) :
                   /\ \E j \in 1..i : annual_movie_list[n].tconst = PyStr(tconsts[j])
                   /\ \A m \in 1..(n - 1) :
                          PositionOf(annual_movie_list[m].tconst.v)
                              < PositionOf(annual_movie_list[n].tconst.v)
            /\ \A n \in 1..Len(YearFails) : \A m \in 1..(n - 1) :
                   PositionOf(YearFails[m]) < PositionOf(YearFails[n]))

\* A year of two keys is done: the first key failed, the second has its Record.
C17_Witness ==
    /\ AtLoop
    /\ i = 2
    /\ i = Len(tconsts)
    /\ fails = 1
    /\ Len(annual_movie_list) = 1
    /\ annual_movie_list[1].tconst = PyStr(tconsts[2])
    /\ failed_list[Len(failed_list)] = tconsts[1]

(***************************************************************************)
(* C18.  In the multi-year cell every year starts with an empty batch list  *)
(* and a fail count of 0 and with failed_list as it was; whenever the cell  *)
(* is running, a step leaves failed_list as a prefix of its new value, so   *)
(* the entries of earlier years and of earlier runs stay.  After the batch  *)
(* of a year each key of every year done in the run has its row in the file *)
(* of its own year or is among the keys the run put on failed_list, never   *)
(* both, and the keys whose request raised are among the latter.  The file  *)
(* of a year is changed only by the write that ends the batch of that year, *)
(* and its rows are keys of that year.                                      *)
(***************************************************************************)
IsPrefix(s, t) == Len(s) <= Len(t) /\ SubSeq(t, 1, Len(s)) = s

\* The years the running multi-year cell is done with.
YearsDone == SubSeq(years_to_scrape_list, 1, Len(years_to_scrape_list) - Len(years))

HasRow(y, k) ==
    /\ y \in DOMAIN rawdata
    /\ \E n \in 1..Len(rawdata[y]) : rawdata[y][n].tconst = Quoted(k)

C18_FailureListKeptAcrossYears ==
    /\ [][(cell = "multi" /\ pc = "year" /\ years # <<>>) =>
            /\ yr' = Head(years)
            /\ annual_movie_list' = <<>>
            /\ fails' = 0
            /\ failed_list' = failed_list]_vars
    /\ [][cell' = "multi" => IsPrefix(failed_list, failed_list')]_vars
    /\ [](cell = "multi" /\ pc = "year" =>
            /\ Len(failed_list) >= base
            /\ fetch_failed \subseteq NewFailSet
            /\ \A n \in 1..Len(YearsDone) :
                   LET keys == TconstsOf(movie_df, YearsDone[n])
                   IN \A j \in 1..Len(keys) :
                          /\ HasRow(YearsDone[n], keys[j]) # (keys[j] \in NewFailSet)
                          /\ \A y \in DOMAIN rawdata :
                                 y # YearsDone[n] => ~HasRow(y, keys[j]))
    /\ [][\A y \in DOMAIN rawdata :
            /\ y \in DOMAIN rawdata'
            /\ rawdata'[y] # rawdata[y] => (y = yr /\ AtLoop /\ i = Len(tconsts))]_vars

\* The multi-year cell, run after a run that left a key on failed_list, is done
\* with both years: a key failed in the first year, the second year has its row,
\* and the entry of the earlier run is still there.
C18_Witness ==
    /\ cell = "multi"
    /\ pc = "year"
    /\ years = <<>>
    /\ base > 0
    /\ Len(failed_list) > base
    /\ failed_list[Len(failed_list)] \in {K1, K2}
    /\ HasRow(1921, K3)

====
